---- MODULE Spec2Model ----
(***************************************************************************)
(* A model of stty.py: the Stty object (a termios attribute list, a        *)
(* winsize block and the symbolic attributes cached in the instance        *)
(* dictionary) and the methods that read and write it.  The platform       *)
(* tables carry the values the termios module defines on Linux.            *)
(***************************************************************************)
EXTENDS Integers, Sequences, FiniteSets, TLC

(***************************************************************************)
(* Python values.  A value is a record of its type name t and its payload: *)
(* n for a bool (0 or 1) or an int, s for a str, b for the bytes of a      *)
(* bytes object or the items of a tuple or list of integers.               *)
(***************************************************************************)
PyVal(t, n, s, b) == [t |-> t, n |-> n, s |-> s, b |-> b]
PyBool(x) == PyVal("bool", IF x THEN 1 ELSE 0, "", << >>)
PyInt(n) == PyVal("int", n, "", << >>)
PyStr(s) == PyVal("str", 0, s, << >>)
PyBytes(b) == PyVal("bytes", 0, "", b)
PyNone == PyVal("NoneType", 0, "", << >>)
PyTuple(b) == PyVal("tuple", 0, "", b)
PyList(b) == PyVal("list", 0, "", b)

\* isinstance(value, int): bool is a subclass of int
IsInt(value) == value.t \in {"int", "bool"}

\* the integer an int (or bool) value stands for
IntOf(value) == value.n

\* isinstance(value, bytes)
IsBytes(value) == value.t = "bytes"

\* Python truth value of a value (the test `if value:`)
Truthy(value) ==
    CASE value.t \in {"bool", "int"} -> value.n # 0
      [] value.t = "NoneType" -> FALSE
      [] value.t = "str" -> value.s # ""
      [] OTHER -> Len(value.b) > 0

\* Python ==: numbers compare by value (True == 1), anything else by
\* type and payload
PyEq(x, y) ==
    IF IsInt(x) /\ IsInt(y) THEN IntOf(x) = IntOf(y) ELSE x = y

(***************************************************************************)
(* Flag words.  A flag word or mask is an unbounded nonnegative integer    *)
(* (termios.CRTSCTS is 2^31); it is held as the set of the positions of    *)
(* its one bits, so 48 is {4, 5}.                                          *)
(***************************************************************************)
\* the bits of a nonnegative integer
RECURSIVE Bits(_)
Bits(n) ==
    IF n = 0 THEN {}
    ELSE (IF n % 2 = 1 THEN {0} ELSE {}) \cup {i + 1 : i \in Bits(n \div 2)}

\* the integer of a set of bits
RECURSIVE Num(_)
Num(w) ==
    IF w = {} THEN 0
    ELSE LET i == CHOOSE j \in w : TRUE IN 2 ^ i + Num(w \ {i})

\* a & b
BitAnd(a, b) == a \cap b

\* a | b
BitOr(a, b) == a \cup b

\* a & ~m
BitClear(a, m) == a \ m

(***************************************************************************)
(* Indices of the termios attribute list and of the winsize tuple.         *)
(***************************************************************************)
_IFLAG == 0
_OFLAG == 1
_CFLAG == 2
_LFLAG == 3
_ISPEED == 4
_OSPEED == 5
_CC == 6
_ROWS == 0
_COLS == 1

\* termios.tcgetwinsize and termios.tcsetwinsize exist
_HAVE_WINSZ == TRUE

(***************************************************************************)
(* The catalog.  Each table lists its names in the order the module       *)
(* builds it; a mask is written as the set of its 1 bits and has the       *)
(* value the termios module gives it (IGNBRK is 1, CRTSCTS is 2^31).       *)
(***************************************************************************)
_ifbool ==
    << <<"ignbrk", {0}>>, <<"brkint", {1}>>, <<"ignpar", {2}>>, <<"parmrk", {3}>>,
       <<"inpck", {4}>>, <<"istrip", {5}>>, <<"inlcr", {6}>>, <<"igncr", {7}>>,
       <<"icrnl", {8}>>, <<"iuclc", {9}>>, <<"ixon", {10}>>, <<"ixany", {11}>>,
       <<"ixoff", {12}>>, <<"imaxbel", {13}>> >>

_ofbool ==
    << <<"opost", {0}>>, <<"olcuc", {1}>>, <<"onlcr", {2}>>, <<"ocrnl", {3}>>,
       <<"onocr", {4}>>, <<"onlret", {5}>>, <<"ofill", {6}>>, <<"ofdel", {7}>> >>

_cfbool ==
    << <<"cstopb", {6}>>, <<"cread", {7}>>, <<"parenb", {8}>>, <<"parodd", {9}>>,
       <<"hupcl", {10}>>, <<"clocal", {11}>>, <<"cibaud", {16, 17, 18, 19, 28}>>,
       <<"crtscts", {31}>> >>

_lfbool ==
    << <<"isig", {0}>>, <<"icanon", {1}>>, <<"xcase", {2}>>, <<"echo", {3}>>,
       <<"echoe", {4}>>, <<"echok", {5}>>, <<"echonl", {6}>>, <<"echoctl", {9}>>,
       <<"echoprt", {10}>>, <<"echoke", {11}>>, <<"flusho", {12}>>,
       <<"noflsh", {7}>>, <<"tostop", {8}>>, <<"pendin", {14}>>,
       <<"iexten", {15}>> >>

\* names of a table, in order
NamesOf(tab) == [i \in 1..Len(tab) |-> tab[i][1]]

\* the set of elements of a sequence
Range(s) == {s[i] : i \in 1..Len(s)}

\* the entry of a table with a given name
Entry(tab, name) == tab[CHOOSE i \in 1..Len(tab) : tab[i][1] = name]

\* the dictionary of a table of <<name, x0, x1, ...>>: name -> <<x0, x1, ...>>
Rows(tab) == [name \in Range(NamesOf(tab)) |-> Tail(Entry(tab, name))]

\* the dictionary of a table of pairs: column k -> column v
Dict(tab, k, v) ==
    [key \in {tab[i][k] : i \in 1..Len(tab)} |->
        tab[CHOOSE i \in 1..Len(tab) : tab[i][k] = key][v]]

\* the entries <<name, flag, mask>> of the names of one flag word
WithFlag(tab, flag) == [i \in 1..Len(tab) |-> <<tab[i][1], flag, tab[i][2]>>]

IFBOOL_A == NamesOf(_ifbool)
OFBOOL_A == NamesOf(_ofbool)
CFBOOL_A == NamesOf(_cfbool)
LFBOOL_A == NamesOf(_lfbool)

\* _bool_d: name -> <<flag index, mask>>, in insertion order
_bool_tab ==
    WithFlag(_ifbool, _IFLAG) \o WithFlag(_ofbool, _OFLAG)
    \o WithFlag(_cfbool, _CFLAG) \o WithFlag(_lfbool, _LFLAG)

_bool_d == Rows(_bool_tab)

\* _num_d: name -> <<flag index, mask, value table>>; a value table is a
\* sequence of <<raw value, symbolic name>>
_num_tab ==
    << <<"csize", _CFLAG, 48,
         << <<0, "cs5">>, <<16, "cs6">>, <<32, "cs7">>, <<48, "cs8">> >> >>,
       <<"crdly", _OFLAG, 1536,
         << <<0, "cr0">>, <<512, "cr1">>, <<1024, "cr2">>, <<1536, "cr3">> >> >>,
       <<"nldly", _OFLAG, 256, << <<0, "nl0">>, <<256, "nl1">> >> >>,
       <<"tabdly", _OFLAG, 6144,
         << <<0, "tab0">>, <<2048, "tab1">>, <<4096, "tab2">>, <<6144, "tab3">> >> >>,
       <<"bsdly", _OFLAG, 8192, << <<0, "bs0">>, <<8192, "bs1">> >> >>,
       <<"ffdly", _OFLAG, 32768, << <<0, "ff0">>, <<32768, "ff1">> >> >>,
       <<"vtdly", _OFLAG, 16384, << <<0, "vt0">>, <<16384, "vt1">> >> >> >>

_num_d == Rows(_num_tab)

\* the raw values of a value table (the keys of x[2])
AvailKeys(avail) == {avail[i][1] : i \in 1..Len(avail)}

\* x[2][value]: the symbolic name of a raw value
AvailName(avail, value) ==
    avail[CHOOSE i \in 1..Len(avail) : avail[i][1] = value][2]

\* the module attribute cs8 (setattr of the module, termios.CS8)
cs8 == 48

\* the module attribute cs7 (setattr of the module, termios.CS7)
cs7 == 32

\* termios.CERASE and termios.CKILL, the integer codes of the default
\* erase and kill characters
CERASE == 127
CKILL == 21

\* _baud_d: <<baud rate, termios speed constant>>
_baud_tab ==
    << <<0, 0>>, <<50, 1>>, <<75, 2>>, <<110, 3>>, <<134, 4>>, <<150, 5>>,
       <<200, 6>>, <<300, 7>>, <<600, 8>>, <<1200, 9>>, <<1800, 10>>,
       <<2400, 11>>, <<4800, 12>>, <<9600, 13>>, <<19200, 14>>, <<38400, 15>>,
       <<57600, 4097>>, <<115200, 4098>>, <<230400, 4099>>, <<460800, 4100>>,
       <<500000, 4101>>, <<576000, 4102>>, <<921600, 4103>>,
       <<1000000, 4104>>, <<1152000, 4105>>, <<1500000, 4106>>,
       <<2000000, 4107>>, <<2500000, 4108>>, <<3000000, 4109>>,
       <<3500000, 4110>>, <<4000000, 4111>> >>

_baud_d == Dict(_baud_tab, 1, 2)

_baud_d_inverse == Dict(_baud_tab, 2, 1)

\* _cc_d: <<name, index in the control character list>>
_cc_tab ==
    << <<"eof", 4>>, <<"eol", 11>>, <<"eol2", 16>>, <<"erase", 2>>,
       <<"werase", 14>>, <<"kill", 3>>, <<"reprint", 12>>, <<"intr", 0>>,
       <<"quit", 1>>, <<"susp", 10>>, <<"start", 8>>, <<"stop", 9>>,
       <<"lnext", 15>>, <<"discard", 13>>, <<"swtch", 7>> >>

_cc_d == Dict(_cc_tab, 1, 2)

_noncanon_tab == << <<"min", 6>>, <<"time", 5>> >>

_noncanon_d == Dict(_noncanon_tab, 1, 2)

_speed_tab == << <<"ispeed", _ISPEED>>, <<"ospeed", _OSPEED>> >>

_speed_d == Dict(_speed_tab, 1, 2)

_winsz_tab == IF _HAVE_WINSZ THEN << <<"rows", _ROWS>>, <<"cols", _COLS>> >>
              ELSE << >>

_winsz_d == Dict(_winsz_tab, 1, 2)

\* the names of every attribute available on the platform, in order
_available ==
    NamesOf(_bool_tab) \o NamesOf(_num_tab) \o NamesOf(_speed_tab)
    \o NamesOf(_cc_tab) \o NamesOf(_noncanon_tab) \o NamesOf(_winsz_tab)

CC_A == NamesOf(_cc_tab)
NONCANON_A == NamesOf(_noncanon_tab)
SPEED_A == NamesOf(_speed_tab)
WINSZ_A == NamesOf(_winsz_tab)

(***************************************************************************)
(* The Stty instance: self.termios is the attribute `_termios` (a list of  *)
(* four flag words, two speeds and the control character list),            *)
(* self.winsize the attribute `_winsize`, self.attrs the symbolic          *)
(* attributes held in the instance dictionary (a name absent from its      *)
(* domain is an attribute the instance does not have).                     *)
(***************************************************************************)
\* the termios attribute list: four flag words, two speeds and the list
\* of control characters
PyTermios(iflag, oflag, cflag, lflag, ispeed, ospeed, cc) ==
    [t |-> "termios",
     v |-> <<Bits(iflag), Bits(oflag), Bits(cflag), Bits(lflag), ispeed, ospeed, cc>>]

\* an attribute the instance does not have
Absent == PyVal("absent", 0, "", << >>)

HasTermios(self) == self.termios.t # "absent"
HasWinsize(self) == self.winsize.t # "absent"

\* self._termios[idx]
Word(self, idx) == self.termios.v[idx + 1]

\* self._termios[idx] = w
SetWord(self, idx, w) == [self EXCEPT !.termios.v[idx + 1] = w]

\* self._termios[_CC][idx] = value
SetCc(self, idx, value) == [self EXCEPT !.termios.v[_CC + 1][idx + 1] = value]

\* super().__setattr__(name, value)
Cache(self, name, value) ==
    [self EXCEPT !.attrs = [n \in (DOMAIN self.attrs) \cup {name} |->
                               IF n = name THEN value ELSE self.attrs[n]]]

\* outcomes of a call: the instance afterwards, the exception raised
\* ("ok" when the call returns) and the names the exception reports
Return(self) == [self |-> self, exc |-> "ok", info |-> {}]
Raise(self, e, names) == [self |-> self, exc |-> e, info |-> names]

\* bytes([value]) raises ValueError outside range(0, 256)
BytesOfOk(n) == n >= 0 /\ n < 256

\* boolean branch of __setattr__
SetBool(self, name, value) ==
    LET x == _bool_d[name] IN
    IF ~HasTermios(self) THEN Raise(self, "AttributeError", {"_termios"})
    ELSE LET w == Word(self, x[1])
             s1 == IF Truthy(value) THEN SetWord(self, x[1], BitOr(w, x[2]))
                   ELSE SetWord(self, x[1], BitClear(w, x[2]))
         IN Return(Cache(s1, name, value))

\* SetNum assigning the value to the whole flag word
SetNumWholeWord(self, name, value) ==
    IF ~IsInt(value) THEN Raise(self, "TypeError", {name})
    ELSE IF IntOf(value) \notin AvailKeys(_num_d[name][3])
         THEN Raise(self, "ValueError", {name})
    ELSE IF ~HasTermios(self) THEN Raise(self, "AttributeError", {"_termios"})
    ELSE Return(Cache(SetWord(self, _num_d[name][1], Bits(IntOf(value))), name,
                      PyStr(AvailName(_num_d[name][3], IntOf(value)))))

\* enumerated branch of __setattr__
SetNum(self, name, value) ==
    LET x == _num_d[name] IN
    IF ~IsInt(value) THEN Raise(self, "TypeError", {name})
    ELSE IF IntOf(value) \notin AvailKeys(x[3]) THEN Raise(self, "ValueError", {name})
    ELSE IF ~HasTermios(self) THEN Raise(self, "AttributeError", {"_termios"})
    ELSE LET s1 == SetWord(self, x[1], BitClear(Word(self, x[1]), Bits(x[2])))
             s2 == SetWord(s1, x[1], BitOr(Word(s1, x[1]), Bits(IntOf(value))))
         IN Return(Cache(s2, name, PyStr(AvailName(x[3], IntOf(value)))))

\* speed branch of __setattr__
SetSpeed(self, name, value) ==
    IF ~IsInt(value) THEN Raise(self, "TypeError", {name})
    ELSE IF IntOf(value) \notin DOMAIN _baud_d THEN Raise(self, "ValueError", {name})
    ELSE IF ~HasTermios(self) THEN Raise(self, "AttributeError", {"_termios"})
    ELSE Return(Cache(SetWord(self, _speed_d[name], _baud_d[IntOf(value)]),
                      name, value))

\* control character branch of __setattr__
SetCcAttr(self, name, value) ==
    IF ~IsBytes(value) THEN Raise(self, "TypeError", {name})
    ELSE IF Len(value.b) # 1 THEN Raise(self, "ValueError", {name})
    ELSE IF ~HasTermios(self) THEN Raise(self, "AttributeError", {"_termios"})
    ELSE Return(Cache(SetCc(self, _cc_d[name], value), name, value))

\* SetNoncanon keeping the low eight bits of the value
SetNoncanonTruncate(self, name, value) ==
    IF ~IsInt(value) THEN Raise(self, "TypeError", {name})
    ELSE IF IntOf(value) < 0 THEN Raise(self, "ValueError", {name})
    ELSE IF ~HasTermios(self) THEN Raise(self, "AttributeError", {"_termios"})
    ELSE Return(Cache(SetCc(self, _noncanon_d[name],
                            PyBytes(<<IntOf(value) % 256>>)),
                      name, value))

\* SetNoncanon with the attribute stored before the byte is built
SetNoncanonStoreFirst(self, name, value) ==
    IF ~IsInt(value) THEN Raise(self, "TypeError", {name})
    ELSE IF IntOf(value) < 0 THEN Raise(self, "ValueError", {name})
    ELSE IF ~BytesOfOk(IntOf(value))
         THEN Raise(Cache(self, name, value), "ValueError", {name})
    ELSE IF ~HasTermios(self) THEN Raise(self, "AttributeError", {"_termios"})
    ELSE Return(Cache(SetCc(self, _noncanon_d[name], PyBytes(<<IntOf(value)>>)),
                      name, value))

\* min / time branch of __setattr__
SetNoncanon(self, name, value) ==
    IF ~IsInt(value) THEN Raise(self, "TypeError", {name})
    ELSE IF IntOf(value) < 0 THEN Raise(self, "ValueError", {name})
    ELSE IF ~BytesOfOk(IntOf(value)) THEN Raise(self, "ValueError", {name})
    ELSE IF ~HasTermios(self) THEN Raise(self, "AttributeError", {"_termios"})
    ELSE Return(Cache(SetCc(self, _noncanon_d[name], PyBytes(<<IntOf(value)>>)),
                      name, value))

\* rows / cols branch of __setattr__: item assignment works on a list
\* only (tcgetwinsize returns a tuple)
SetWinsz(self, name, value) ==
    IF ~IsInt(value) THEN Raise(self, "TypeError", {name})
    ELSE IF IntOf(value) < 0 THEN Raise(self, "ValueError", {name})
    ELSE IF ~HasWinsize(self) THEN Raise(self, "AttributeError", {"_winsize"})
    ELSE IF self.winsize.t # "list" THEN Raise(self, "TypeError", {"_winsize"})
    ELSE Return(Cache([self EXCEPT !.winsize.b[_winsz_d[name] + 1] = IntOf(value)],
                      name, value))

\* Stty.__setattr__(self, name, value)
Stty_setattr(self, name, value) ==
    IF name = "_termios" \/ name = "_winsize" THEN Raise(self, "AttributeError", {name})
    ELSE IF name \in DOMAIN _bool_d THEN SetBool(self, name, value)
    ELSE IF name \in DOMAIN _num_d THEN SetNum(self, name, value)
    ELSE IF name \in DOMAIN _speed_d THEN SetSpeed(self, name, value)
    ELSE IF name \in DOMAIN _cc_d THEN SetCcAttr(self, name, value)
    ELSE IF name \in DOMAIN _noncanon_d THEN SetNoncanon(self, name, value)
    ELSE IF name \in DOMAIN _winsz_d THEN SetWinsz(self, name, value)
    ELSE Raise(self, "AttributeError", {name})

\* ApplyOpts going on with the remaining pairs after a pair has failed,
\* and reporting the first exception
RECURSIVE ApplyOptsKeepGoing(_, _, _)
ApplyOptsKeepGoing(r, opts, i) ==
    IF i > Len(opts) THEN r
    ELSE LET q == Stty_setattr(r.self, opts[i][1], opts[i][2]) IN
         ApplyOptsKeepGoing(IF r.exc # "ok" THEN Raise(q.self, r.exc, r.info)
                            ELSE q, opts, i + 1)

\* for x in opts: self.__setattr__(x, opts[x]), stopping at the first
\* exception; opts is the sequence of <<name, value>> pairs in call order
RECURSIVE ApplyOpts(_, _, _)
ApplyOpts(r, opts, i) ==
    IF r.exc # "ok" \/ i > Len(opts) THEN r
    ELSE ApplyOpts(Stty_setattr(r.self, opts[i][1], opts[i][2]), opts, i + 1)

\* the keys of a keyword mapping
Keys(opts) == {opts[i][1] : i \in 1..Len(opts)}

\* Stty.set without the check of the keys before the loop
Stty_setNoCheck(self, opts) == ApplyOpts(Return(self), opts, 1)

\* Stty.set(self, **opts)
Stty_set(self, opts) ==
    LET excess == Keys(opts) \ Range(_available) IN
    IF Cardinality(excess) > 0 THEN Raise(self, "AttributeError", excess)
    ELSE ApplyOpts(Return(self), opts, 1)

\* getattr(self, x) succeeds for every available name
GetOk(self) == \A i \in 1..Len(_available) : _available[i] \in DOMAIN self.attrs

\* Stty.get(self): the mapping of every available name to its attribute
Stty_get(self) == [i \in 1..Len(_available) |->
                      <<_available[i], self.attrs[_available[i]]>>]

(***************************************************************************)
(* fromfd: the values derived from the raw blocks.                         *)
(***************************************************************************)
\* ord(c) of a control character list entry: an integer for a bytes (or
\* str) value of length 1, TypeError for anything else
OrdOk(c) == c.t = "bytes" /\ Len(c.b) = 1

\* the value fromfd derives for `name` from the raw blocks of self, or the
\* exception the derivation raises
Fetch(self, name) ==
    IF name \in DOMAIN _bool_d THEN
        LET x == _bool_d[name] IN
        [exc |-> "ok", value |-> PyBool(BitAnd(Word(self, x[1]), x[2]) # {})]
    ELSE IF name \in DOMAIN _num_d THEN
        LET x == _num_d[name]
            y == Num(BitAnd(Word(self, x[1]), Bits(x[2])))
        IN IF y \in AvailKeys(x[3])
           THEN [exc |-> "ok", value |-> PyStr(AvailName(x[3], y))]
           ELSE [exc |-> "KeyError", value |-> PyNone]
    ELSE IF name \in DOMAIN _speed_d THEN
        LET x == Word(self, _speed_d[name]) IN
        IF x \in DOMAIN _baud_d_inverse
        THEN [exc |-> "ok", value |-> PyInt(_baud_d_inverse[x])]
        ELSE [exc |-> "KeyError", value |-> PyNone]
    ELSE IF name \in DOMAIN _cc_d THEN
        [exc |-> "ok", value |-> Word(self, _CC)[_cc_d[name] + 1]]
    ELSE IF name \in DOMAIN _noncanon_d THEN
        LET c == Word(self, _CC)[_noncanon_d[name] + 1] IN
        IF OrdOk(c) THEN [exc |-> "ok", value |-> PyInt(c.b[1])]
        ELSE [exc |-> "TypeError", value |-> PyNone]
    ELSE [exc |-> "ok", value |-> PyInt(self.winsize.b[_winsz_d[name] + 1])]

\* one turn of a loop of fromfd: self.__setattr__(name, derived), where f
\* is the derived value or the exception its derivation raises
FetchStep(self, name, f) ==
    IF f.exc # "ok" THEN Raise(self, f.exc, {name})
    ELSE Stty_setattr(self, name, f.value)

\* the loops of fromfd: for name in names: self.__setattr__(name, derived),
\* stopping at the first exception
RECURSIVE FetchLoop(_, _, _)
FetchLoop(r, names, i) ==
    IF r.exc # "ok" \/ i > Len(names) THEN r
    ELSE FetchLoop(FetchStep(r.self, names[i], Fetch(r.self, names[i])),
                   names, i + 1)

\* if self._winsize: for name in _winsz_d: ...
FetchWinsz(r) ==
    IF r.exc = "ok" /\ Truthy(r.self.winsize)
    THEN FetchLoop(r, NamesOf(_winsz_tab), 1)
    ELSE r

\* Stty.fromfd(self, fd); dev holds what tcgetattr(fd) and
\* tcgetwinsize(fd) return; the loops over _bool_d, _num_d, _speed_d, _cc_d
\* and _noncanon_d run one after the other
Stty_fromfd(self, dev) ==
    FetchWinsz(FetchLoop(
        Return([self EXCEPT !.termios = dev.termios,
                            !.winsize = IF _HAVE_WINSZ THEN dev.winsize
                                        ELSE PyNone]),
        NamesOf(_bool_tab) \o NamesOf(_num_tab) \o NamesOf(_speed_tab)
        \o NamesOf(_cc_tab) \o NamesOf(_noncanon_tab), 1))

(***************************************************************************)
(* The names stty.<name> evaluates for.  stty.<name> of any other name     *)
(* raises AttributeError: the module defines no conversion between the    *)
(* string form of a control character and its byte.                       *)
(***************************************************************************)
\* the names of the module stty once it is imported: those its code binds,
\* __all__ among them, those the import sets (__name__, __file__, ...) and
\* those every module object has from its type (__dict__, __class__, ...)
_module ==
    {"Stty", "NOW", "DRAIN", "FLUSH", "SPEEDS",
     "IFBOOL_A", "OFBOOL_A", "CFBOOL_A", "LFBOOL_A",
     "CS_A", "DLY_A", "SPEED_A", "WINSZ_A", "CC_A", "NONCANON_A",
     "control", "sys", "termios", "copy", "json",
     "_IFLAG", "_OFLAG", "_CFLAG", "_LFLAG", "_ISPEED", "_OSPEED", "_CC",
     "_ROWS", "_COLS", "_HAVE_WINSZ",
     "_ifbool", "_ofbool", "_cfbool", "_lfbool", "_cs", "_dly", "_r", "_cc",
     "_bool_d", "_num_d", "_baud_d", "_baud_d_inverse", "_cc_d",
     "_noncanon_d", "_speed_d", "_winsz_d", "_available",
     "cs5", "cs6", "cs7", "cs8", "nl0", "nl1", "cr0", "cr1", "cr2", "cr3",
     "tab0", "tab1", "tab2", "tab3", "bs0", "bs1", "vt0", "vt1", "ff0",
     "ff1",
     "flag", "mask", "maskdict", "masklist", "maskvalues", "avail", "v",
     "num_v", "n", "rate", "s",
     "__all__", "__builtins__", "__cached__", "__doc__", "__file__",
     "__loader__", "__name__", "__package__", "__spec__",
     "__annotations__", "__class__", "__delattr__", "__dict__", "__dir__",
     "__eq__", "__format__", "__ge__", "__getattribute__", "__getstate__",
     "__gt__", "__hash__", "__init__", "__init_subclass__", "__le__",
     "__lt__", "__ne__", "__new__", "__reduce__", "__reduce_ex__",
     "__repr__", "__setattr__", "__sizeof__", "__str__",
     "__subclasshook__"}

\* the string "undef", as the codes of its characters
Undef == <<117, 110, 100, 101, 102>>

\* the code of "^"
Caret == 94

(***************************************************************************)
(* raw: the composite mode.                                                *)
(***************************************************************************)
\* the pairs <<x, False>> for x in names
AllFalse(names) == [i \in 1..Len(names) |-> <<names[i], PyBool(FALSE)>>]

\* the call of self.set that follows loops whose outcome is r
SetAfter(r, opts) == IF r.exc # "ok" THEN r ELSE Stty_set(r.self, opts)

\* Stty.raw without the loop over LFBOOL_A
Stty_rawNoLocal(self) ==
    SetAfter(ApplyOpts(Return(self), AllFalse(IFBOOL_A), 1),
             << <<"opost", PyBool(FALSE)>>,
                <<"parenb", PyBool(FALSE)>>,
                <<"csize", PyInt(cs8)>>,
                <<"min", PyInt(1)>>,
                <<"time", PyInt(0)>> >>)

\* Stty.raw(self): the loop over IFBOOL_A, the loop over LFBOOL_A, then
\* self.set(opost=False, parenb=False, csize=cs8, min=1, time=0)
Stty_raw(self) ==
    SetAfter(ApplyOpts(Return(self),
                       AllFalse(IFBOOL_A) \o AllFalse(LFBOOL_A), 1),
             << <<"opost", PyBool(FALSE)>>,
                <<"parenb", PyBool(FALSE)>>,
                <<"csize", PyInt(cs8)>>,
                <<"min", PyInt(1)>>,
                <<"time", PyInt(0)>> >>)

\* Stty.evenp(self, plus)
Stty_evenp(self, plus) ==
    IF plus
    THEN Stty_set(self, << <<"parenb", PyBool(TRUE)>>, <<"csize", PyInt(cs7)>>,
                           <<"parodd", PyBool(FALSE)>> >>)
    ELSE Stty_set(self, << <<"parenb", PyBool(FALSE)>>, <<"csize", PyInt(cs8)>> >>)

\* Stty.oddp(self, plus)
Stty_oddp(self, plus) ==
    IF plus
    THEN Stty_set(self, << <<"parenb", PyBool(TRUE)>>, <<"csize", PyInt(cs7)>>,
                           <<"parodd", PyBool(TRUE)>> >>)
    ELSE Stty_set(self, << <<"parenb", PyBool(FALSE)>>, <<"csize", PyInt(cs8)>> >>)

\* Stty.nl(self, plus)
Stty_nl(self, plus) ==
    IF plus
    THEN Stty_setattr(self, "icrnl", PyBool(FALSE))
    ELSE Stty_set(self, << <<"icrnl", PyBool(TRUE)>>, <<"inlcr", PyBool(FALSE)>>,
                           <<"igncr", PyBool(FALSE)>> >>)

\* the assignment self.kill = termios.CKILL that follows the assignment
\* of erase, whose outcome is r
KillAfter(r) ==
    IF r.exc # "ok" THEN r ELSE Stty_setattr(r.self, "kill", PyInt(CKILL))

\* Stty.ek(self): termios has CERASE and CKILL
Stty_ek(self) == KillAfter(Stty_setattr(self, "erase", PyInt(CERASE)))

(***************************************************************************)
(* save and load.  A file is absent, holds text that is not a JSON         *)
(* document ("corrupt"), or holds a JSON object: the sequence d of its     *)
(* <<key, value>> pairs in document order.                                 *)
(***************************************************************************)
NoFile == [kind |-> "absent", d |-> << >>]
CorruptFile == [kind |-> "corrupt", d |-> << >>]
JsonFile(d) == [kind |-> "json", d |-> d]

\* json.dump accepts a value: bytes are not JSON serializable
JsonOk(value) ==
    IF value.t = "termios"
    THEN \A i \in 1..Len(value.v[_CC + 1]) : value.v[_CC + 1][i].t # "bytes"
    ELSE value.t # "bytes"

\* the value json.load gives back for a dumped value: a tuple becomes a list
JsonForm(value) == IF value.t = "tuple" THEN PyList(value.b) ELSE value

\* the name at which get() stops: the first available name the instance
\* has no attribute for
FirstMissing(self) ==
    _available[CHOOSE i \in 1..Len(_available) :
                  /\ _available[i] \notin DOMAIN self.attrs
                  /\ \A j \in 1..(i - 1) : _available[j] \in DOMAIN self.attrs]

\* Stty.save(self, path) with a path; file is what the path holds
Stty_save(self, file) ==
    IF ~GetOk(self)
    THEN [self |-> self, exc |-> "AttributeError",
          info |-> {FirstMissing(self)}, file |-> file]
    ELSE LET d == Stty_get(self) \o << <<"_termios", self.termios>>,
                                       <<"_winsize", self.winsize>> >>
         IN IF \A i \in 1..Len(d) : JsonOk(d[i][2])
            THEN [self |-> self, exc |-> "ok", info |-> {},
                  file |-> JsonFile([i \in 1..Len(d) |-> <<d[i][1], JsonForm(d[i][2])>>])]
            ELSE [self |-> self, exc |-> "TypeError", info |-> {},
                  file |-> CorruptFile]

\* d[key]
DocGet(d, key) == d[CHOOSE i \in 1..Len(d) : d[i][1] = key][2]

\* d.pop(key, None)
DocPop(d, key) == SelectSeq(d, LAMBDA p : p[1] # key)

\* Stty.load going on to self.set whatever names the document lacks
Stty_loadNoDeficiency(self, file) ==
    IF file.kind = "absent" THEN Raise(self, "FileNotFoundError", {})
    ELSE IF file.kind = "corrupt" THEN Raise(self, "ValueError", {"JSON"})
    ELSE IF "_termios" \notin Keys(file.d) THEN Raise(self, "ValueError", {"_termios"})
    ELSE IF _HAVE_WINSZ /\ "_winsize" \notin Keys(file.d)
         THEN Raise([self EXCEPT !.termios = DocGet(file.d, "_termios")],
                    "ValueError", {"_winsize"})
    ELSE Stty_set([self EXCEPT !.termios = DocGet(file.d, "_termios"),
                               !.winsize = DocGet(file.d, "_winsize")],
                  DocPop(DocPop(file.d, "_termios"), "_winsize"))

\* Stty.load(self, path); file is what the path holds
Stty_load(self, file) ==
    IF file.kind = "absent" THEN Raise(self, "FileNotFoundError", {})
    ELSE IF file.kind = "corrupt" THEN Raise(self, "ValueError", {"JSON"})
    ELSE IF "_termios" \notin Keys(file.d) THEN Raise(self, "ValueError", {"_termios"})
    ELSE LET s1 == [self EXCEPT !.termios = DocGet(file.d, "_termios")]
             d1 == DocPop(file.d, "_termios")
         IN IF _HAVE_WINSZ /\ "_winsize" \notin Keys(d1)
            THEN Raise(s1, "ValueError", {"_winsize"})
            ELSE LET s2 == [s1 EXCEPT !.winsize = IF _HAVE_WINSZ
                                                  THEN DocGet(d1, "_winsize")
                                                  ELSE PyNone]
                     d2 == DocPop(d1, "_winsize")
                     deficiency == Range(_available) \ Keys(d2)
                 IN IF Cardinality(deficiency) > 0
                    THEN Raise(s2, "ValueError", deficiency)
                    ELSE Stty_set(s2, d2)

(***************************************************************************)
(* Inputs: terminals, files and call arguments.                            *)
(***************************************************************************)
\* the control character list tcgetattr returns: one bytes object per
\* slot; with ICANON off the VMIN and VTIME slots are integers
CcList(codes, icanon) ==
    [i \in 1..Len(codes) |->
        IF ~icanon /\ (i - 1) \in {_noncanon_d["min"], _noncanon_d["time"]}
        THEN PyInt(codes[i]) ELSE PyBytes(<<codes[i]>>)]

\* the control characters of a pseudo-terminal as opened
DefaultCodes ==
    <<3, 28, 127, 21, 4, 0, 1, 0, 17, 19, 26, 0, 18, 15, 23, 22,
      0, 0, 0, 0, 0, 0, 0, 0, 0, 0, 0, 0, 0, 0, 0, 0>>

\* a pseudo-terminal as opened: canonical mode, 8 bits, 38400 baud
DevCooked ==
    [termios |-> PyTermios(1280, 5, 191, 35387, 15, 15, CcList(DefaultCodes, TRUE)),
     winsize |-> PyTuple(<<24, 80>>)]

\* a serial line in non-canonical mode: 7 bits, even parity, 9600 baud
DevSerial ==
    [termios |-> PyTermios(4, 256, 429, 35385 - 8, 13, 13, CcList(DefaultCodes, FALSE)),
     winsize |-> PyTuple(<<0, 0>>)]

Devices == [cooked |-> DevCooked, serial |-> DevSerial]

\* JSON documents a file may hold.  SnapshotDoc(dev) is the flat mapping a
\* snapshot of the terminal dev stands for: every available name with its
\* symbolic value, then the two raw blocks; JSON has no bytes, so a
\* control character is written as the integer code of its byte.
JsonCc(c) == IF c.t = "bytes" THEN PyInt(c.b[1]) ELSE c

SnapshotDoc(dev) ==
    LET raw == [termios |-> dev.termios, winsize |-> dev.winsize, attrs |-> << >>]
        cc == Word(raw, _CC)
        jt == [dev.termios EXCEPT !.v[_CC + 1] = [i \in 1..Len(cc) |-> JsonCc(cc[i])]]
    IN [i \in 1..Len(_available) |->
           <<_available[i],
             LET f == Fetch(raw, _available[i]) IN
             IF f.exc = "ok" THEN JsonCc(f.value)
             ELSE JsonCc(Word(raw, _CC)[_noncanon_d[_available[i]] + 1])>>]
       \o << <<"_termios", jt>>, <<"_winsize", PyList(dev.winsize.b)>> >>

Docs ==
    [snapshot |-> JsonFile(SnapshotDoc(DevCooked)),
     notermios |-> JsonFile(DocPop(SnapshotDoc(DevCooked), "_termios")),
     nowinsize |-> JsonFile(DocPop(SnapshotDoc(DevCooked), "_winsize")),
     noecho |-> JsonFile(DocPop(SnapshotDoc(DevCooked), "echo")),
     bare |-> JsonFile(<< <<"echo", PyBool(TRUE)>> >>),
     missing |-> NoFile]

\* arguments of single assignments  obj.name = value
SetInputs ==
    {<<"echo", PyBool(TRUE)>>, <<"echo", PyBool(FALSE)>>,
     <<"echo", PyStr("on")>>, <<"echo", PyNone>>,
     <<"csize", PyInt(32)>>, <<"csize", PyStr("cs7")>>,
     <<"csize", PyStr("cs99")>>, <<"csize", PyInt(99)>>,
     <<"ispeed", PyInt(9600)>>, <<"ispeed", PyInt(12345)>>,
     <<"intr", PyBytes(<<3>>)>>, <<"intr", PyBytes(<< >>)>>,
     <<"intr", PyStr("^C")>>, <<"intr", PyStr("^c")>>, <<"intr", PyStr("^?")>>,
     <<"intr", PyStr("undef")>>, <<"intr", PyStr("^-")>>, <<"intr", PyStr("a")>>,
     <<"min", PyInt(1)>>, <<"min", PyInt(255)>>, <<"min", PyInt(256)>>,
     <<"min", PyInt(-1)>>, <<"min", PyStr("1")>>,
     <<"rows", PyInt(40)>>, <<"rows", PyInt(-1)>>,
     <<"bogus", PyInt(1)>>, <<"_termios", PyInt(1)>>}

\* a mapping that gives every attribute other than the boolean flags a
\* value of its own type
RestOpts ==
    [i \in 1..Len(_num_tab) |-> <<_num_tab[i][1], PyInt(_num_tab[i][4][1][1])>>]
    \o [i \in 1..Len(_speed_tab) |-> <<_speed_tab[i][1], PyInt(9600)>>]
    \o [i \in 1..Len(_cc_tab) |-> <<_cc_tab[i][1], PyBytes(<<DefaultCodes[_cc_tab[i][2] + 1]>>)>>]
    \o << <<"min", PyInt(1)>>, <<"time", PyInt(0)>> >>
    \o [i \in 1..Len(_winsz_tab) |-> <<_winsz_tab[i][1], PyInt(24)>>]

\* the most keyword arguments a set(self, **opts) call is given
MaxOpts == 3

\* the keyword arguments set(self, **opts) calls are made of: valid pairs, a
\* pair with a value outside its attribute's table and two unknown keys
OptPool ==
    {<<"echo", PyBool(FALSE)>>, <<"icanon", PyBool(FALSE)>>,
     <<"csize", PyInt(99)>>, <<"bogus", PyInt(1)>>, <<"foo", PyInt(2)>>}

\* keyword mappings of set(self, **opts), as sequences of pairs in call order:
\* every choice of up to MaxOpts pairs with different keys, in every order
SetManyInputs ==
    UNION {{opts \in [1..n -> OptPool] :
               \A i, j \in 1..n : i # j => opts[i][1] # opts[j][1]} : n \in 1..MaxOpts}

(***************************************************************************)
(* The state machine.  __init__ calls fromfd or load and then set on an    *)
(* instance that has no attributes yet; each action is one method call on  *)
(* the instance, together with the exception it ends in.  The caller       *)
(* makes a call, looks at its outcome (op, exc, info) and goes on to the   *)
(* next call, as the test functions do one after the other.                *)
(***************************************************************************)
\* termios, winsize, attrs: the one object the calls are about, made by
\* Stty(...) or by Stty.__new__(Stty); held: the caller holds it.
\* Stty(...) that raises hands nothing to its caller: the object is as
\* __init__ left it while the exception is in flight and is gone once
\* the caller goes on.
VARIABLES termios, winsize, attrs, exc, info, op, file, conv, held

vars == <<termios, winsize, attrs, exc, info, op, file, conv, held>>

\* the instance
Self == [termios |-> termios, winsize |-> winsize, attrs |-> attrs]

\* the last call: its method, its attribute name or input name, its value
\* and its keyword mapping
Op(kind, name, value, opts) ==
    [kind |-> kind, name |-> name, value |-> value, opts |-> opts]

\* no call is under way
NoOp == Op("", "", PyNone, << >>)

Idle == op = NoOp

\* the instance and the outcome after a call
Install(r) ==
    /\ Idle
    /\ termios' = r.self.termios
    /\ winsize' = r.self.winsize
    /\ attrs' = r.self.attrs
    /\ exc' = r.exc
    /\ info' = r.info
    /\ UNCHANGED conv

\* a method call on the object: the instance and the outcome after it
Call(r) ==
    /\ held
    /\ Install(r)
    /\ UNCHANGED held

\* fd=None, path=None
None == "None"

\* what a path holds: "saved" is the path save was given
FileAt(path) == IF path = "saved" THEN file ELSE Docs[path]

\* an object as object.__new__ makes it: no attribute
Blank == [termios |-> Absent, winsize |-> Absent, attrs |-> << >>]

\* Stty.__init__(self, fd, path, **opts): fd names a terminal, path a
\* file, None stands for an argument left out
Stty_init(self, fd, path, opts) ==
    IF fd = None /\ path = None
    THEN Raise(self, "ValueError", {"fd or path must be provided"})
    ELSE IF fd # None /\ path # None
    THEN Raise(self, "ValueError", {"only one of fd or path must be provided"})
    ELSE SetAfter(IF fd # None THEN Stty_fromfd(self, Devices[fd])
                  ELSE Stty_load(self, FileAt(path)),
                  opts)

\* the last call of a conversion of a control character: the expression
\* evaluated, its argument (a string or a bytes object, as the codes of its
\* characters), the exception it raised ("ok" when it returned), the name
\* the exception carries, and the value returned
Conv(kind, arg, exc_, info_, out) ==
    [kind |-> kind, arg |-> arg, exc |-> exc_, info |-> info_, out |-> out]

\* no conversion has been called
NoConv == Conv("", << >>, "ok", {}, << >>)

Init ==
    /\ termios = Absent
    /\ winsize = Absent
    /\ attrs = << >>
    /\ exc = "ok"
    /\ info = {}
    /\ op = NoOp
    /\ file = NoFile
    /\ conv = NoConv
    /\ held = FALSE

\* t = Stty(fd=fd, path=path, **opts): a new object, __init__ on it, and
\* the caller holds it when __init__ returns
Construct(fd, path, opts) ==
    /\ ~held
    /\ Install(Stty_init(Blank, fd, path, opts))
    /\ held' = (exc' = "ok")
    /\ op' = Op("Stty", fd, PyStr(path), opts)
    /\ UNCHANGED file

\* obj = Stty.__new__(Stty): a new object on which __init__ has not run
New ==
    /\ Install(Return(Blank))
    /\ held' = TRUE
    /\ op' = Op("__new__", "", PyNone, << >>)
    /\ UNCHANGED file

\* del obj: the caller lets go of the object it holds
Drop ==
    /\ held
    /\ Install(Return(Blank))
    /\ held' = FALSE
    /\ op' = Op("del", "", PyNone, << >>)
    /\ UNCHANGED file

\* obj.__init__(fd=fd, path=path, **opts) on the object the caller holds
CallInit(fd, path, opts) ==
    /\ Call(Stty_init(Self, fd, path, opts))
    /\ op' = Op("__init__", fd, PyStr(path), opts)
    /\ UNCHANGED file

\* obj.name = value
SetAttr(name, value) ==
    /\ Call(Stty_setattr(Self, name, value))
    /\ op' = Op("setattr", name, value, << >>)
    /\ UNCHANGED file

\* obj.set(self, **opts)
SetMany(opts) ==
    /\ Call(Stty_set(Self, opts))
    /\ op' = Op("set", "", PyNone, opts)
    /\ UNCHANGED file

\* obj.fromfd(fd) on the terminal named dev
Fromfd(dev) ==
    /\ Call(Stty_fromfd(Self, Devices[dev]))
    /\ op' = Op("fromfd", dev, PyNone, << >>)
    /\ UNCHANGED file

\* obj.raw()
Raw ==
    /\ Call(Stty_raw(Self))
    /\ op' = Op("raw", "", PyNone, << >>)
    /\ UNCHANGED file

\* obj.evenp(plus)
Evenp(plus) ==
    /\ Call(Stty_evenp(Self, plus))
    /\ op' = Op("evenp", "", PyBool(plus), << >>)
    /\ UNCHANGED file

\* obj.oddp(plus)
Oddp(plus) ==
    /\ Call(Stty_oddp(Self, plus))
    /\ op' = Op("oddp", "", PyBool(plus), << >>)
    /\ UNCHANGED file

\* obj.nl(plus)
Nl(plus) ==
    /\ Call(Stty_nl(Self, plus))
    /\ op' = Op("nl", "", PyBool(plus), << >>)
    /\ UNCHANGED file

\* obj.ek()
Ek ==
    /\ Call(Stty_ek(Self))
    /\ op' = Op("ek", "", PyNone, << >>)
    /\ UNCHANGED file

\* obj.save(path)
Save ==
    LET r == Stty_save(Self, file) IN
    /\ Call(r)
    /\ file' = r.file
    /\ op' = Op("save", "", PyNone, << >>)

\* obj.load(path) of the file save wrote
LoadSaved ==
    /\ Call(Stty_load(Self, file))
    /\ op' = Op("load", "saved", PyNone, << >>)
    /\ UNCHANGED file

\* obj.load(path) of the file named doc
Load(doc) ==
    /\ Call(Stty_load(Self, Docs[doc]))
    /\ op' = Op("load", doc, PyNone, << >>)
    /\ UNCHANGED file

\* the caller goes on after a call has returned or raised
Proceed ==
    /\ ~Idle
    /\ op' = NoOp
    /\ exc' = "ok"
    /\ info' = {}
    /\ termios' = IF held THEN termios ELSE Absent
    /\ winsize' = IF held THEN winsize ELSE Absent
    /\ attrs' = IF held THEN attrs ELSE << >>
    /\ UNCHANGED <<file, conv, held>>

\* the arguments Stty(...) is called with: nothing, a terminal and a file
\* at once, a terminal, a terminal with a keyword argument
CtorInputs ==
    {<<None, None, << >> >>, <<"cooked", "snapshot", << >> >>,
     <<"cooked", None, << >> >>,
     <<"cooked", None, << <<"echo", PyBool(FALSE)>> >> >>}

\* single assignments, batches and raw mode on the pseudo-terminal
Next ==
    \/ \E c \in CtorInputs : Construct(c[1], c[2], c[3])
    \/ New
    \/ Drop
    \/ \E c \in CtorInputs : CallInit(c[1], c[2], c[3])
    \/ \E p \in SetInputs : SetAttr(p[1], p[2])
    \/ \E opts \in SetManyInputs : SetMany(opts)
    \/ \E dev \in {"cooked"} : Fromfd(dev)
    \/ Raw
    \/ Proceed

Spec == Init /\ [][Next]_vars

\* snapshots: fetching from a terminal, loading and saving files, and
\* giving every remaining attribute a value
NextSnapshot ==
    \/ \E dev \in DOMAIN Devices : Construct(dev, None, << >>)
    \/ \E doc \in DOMAIN Docs \cup {"saved"} : Construct(None, doc, << >>)
    \/ New
    \/ Drop
    \/ \E dev \in DOMAIN Devices : Fromfd(dev)
    \/ \E doc \in DOMAIN Docs : Load(doc)
    \/ \E opts \in {RestOpts} : SetMany(opts)
    \/ Save
    \/ LoadSaved
    \/ Proceed

SpecSnapshot == Init /\ [][NextSnapshot]_vars

\* arguments of single assignments, one attribute of each kind: opost in
\* the output flags, csize in the control flags beside cread and parenb,
\* eof in the slot next to those of time and min, and counts at and
\* beyond the ends of a byte
FrameInputs ==
    {<<"opost", PyBool(TRUE)>>,
     <<"csize", PyInt(32)>>,
     <<"ospeed", PyInt(9600)>>,
     <<"eof", PyBytes(<<26>>)>>,
     <<"min", PyInt(0)>>, <<"min", PyInt(256)>>,
     <<"min", PyInt(-1)>>, <<"min", PyStr("1")>>,
     <<"time", PyInt(255)>>, <<"time", PyInt(300)>>,
     <<"rows", PyInt(40)>>}

\* raw mode and single assignments on an instance whose blocks come from
\* a terminal or from a snapshot file
NextFrame ==
    \/ \E dev \in DOMAIN Devices : Construct(dev, None, << >>)
    \/ \E doc \in {"snapshot"} : Construct(None, doc, << >>)
    \/ New
    \/ Drop
    \/ \E dev \in DOMAIN Devices : Fromfd(dev)
    \/ \E doc \in {"snapshot"} : Load(doc)
    \/ \E p \in FrameInputs : SetAttr(p[1], p[2])
    \/ Raw
    \/ Proceed

SpecFrame == Init /\ [][NextFrame]_vars

\* arguments of single assignments between composite modes
ModeInputs ==
    {<<"echo", PyStr("on")>>, <<"icrnl", PyBool(TRUE)>>,
     <<"csize", PyInt(16)>>, <<"min", PyInt(0)>>}

\* the composite modes on an instance whose blocks come from a terminal
NextModes ==
    \/ \E dev \in DOMAIN Devices : Construct(dev, None, << >>)
    \/ New
    \/ Drop
    \/ \E dev \in DOMAIN Devices : CallInit(dev, None, << >>)
    \/ \E p \in ModeInputs : SetAttr(p[1], p[2])
    \/ Raw
    \/ \E plus \in BOOLEAN : Evenp(plus)
    \/ \E plus \in BOOLEAN : Oddp(plus)
    \/ \E plus \in BOOLEAN : Nl(plus)
    \/ Ek
    \/ Proceed

SpecModes == Init /\ [][NextModes]_vars

\* the printable ASCII characters
Printable == 32..126

\* the characters caret notation is defined for: the ASCII letters and
\* [ \ ] ^ _ ?
CircumflexChars == (97..122) \cup (65..90) \cup {91, 92, 93, 94, 95, 63}

\* the strings the conversions are called with: every printable
\* character, every caret notation, "^-", "undef", and "^1", "ab" and ""
\* which stand for no control character
CcInputs ==
    {<<c>> : c \in Printable} \cup {<<Caret, x>> : x \in CircumflexChars}
    \cup {<<Caret, 45>>, Undef, <<Caret, 49>>, <<97, 98>>, << >>}

\* the bytes objects cc_bytes_to_str is called with: the control codes,
\* the first and last printable characters, DEL and 255
CcBytes == (0..31) \cup {32, 126, 127, 255}

\* stty.<name>(arg) in an expression of the given kind: the lookup of a
\* name the module does not have raises AttributeError, which carries
\* the name, before anything is called
CallMissing(kind, name, arg) ==
    /\ conv.kind = ""
    /\ name \notin _module
    /\ conv' = Conv(kind, arg, "AttributeError", {name}, << >>)
    /\ UNCHANGED <<termios, winsize, attrs, exc, info, op, file, held>>

\* stty.cc_str_to_bytes(s)
CcStrToBytes(s) == CallMissing("cc_str_to_bytes", "cc_str_to_bytes", s)

\* stty.cc_bytes_to_str(bytes([b]))
CcBytesToStr(b) == CallMissing("cc_bytes_to_str", "cc_bytes_to_str", <<b>>)

\* stty.cc_bytes_to_str(stty.cc_str_to_bytes(s)): the function is looked
\* up before its argument is evaluated, so the exception names
\* cc_bytes_to_str
CcRoundTrip(s) == CallMissing("round trip", "cc_bytes_to_str", s)

\* the caller goes on after a conversion has returned or raised
CcProceed ==
    /\ conv.kind # ""
    /\ conv' = NoConv
    /\ UNCHANGED <<termios, winsize, attrs, exc, info, op, file, held>>

\* conversions of control characters
NextCc ==
    \/ \E s \in CcInputs : CcStrToBytes(s)
    \/ \E b \in CcBytes : CcBytesToStr(b)
    \/ \E s \in CcInputs : CcRoundTrip(s)
    \/ CcProceed

SpecCc == Init /\ [][NextCc]_vars

TypeOK == exc \in {"ok", "TypeError", "ValueError", "AttributeError",
                   "KeyError", "FileNotFoundError"}

(***************************************************************************)
(* Properties.                                                             *)
(***************************************************************************)
\* the raw blocks and the symbolic attributes are those before the step
SameInstance == UNCHANGED <<termios, winsize, attrs>>

\* the attribute `name` is what fromfd would derive from the raw blocks
Consistent(name) ==
    /\ Fetch(Self, name).exc = "ok"
    /\ PyEq(attrs[name], Fetch(Self, name).value)

\* C1: after a successful set, set-many or composite-mode call every
\* symbolic attribute the instance holds equals the value derived afresh
\* from the raw blocks.
C1_RawSymbolicConsistency ==
    (op.kind \in {"setattr", "set", "raw", "evenp", "oddp", "nl", "ek"}
     /\ exc = "ok")
        => \A name \in DOMAIN attrs : Consistent(name)

\* C2: a single assignment either succeeds or raises and leaves the raw
\* blocks and every symbolic attribute as they were.
C2_SetAtomic ==
    [][(op'.kind = "setattr" /\ exc' # "ok") => SameInstance]_vars

\* C2 witness: min holds 1 and the assignment min = 256 has raised
C2_Witness ==
    /\ op = Op("setattr", "min", PyInt(256), << >>)
    /\ exc = "ValueError"
    /\ "min" \in DOMAIN attrs
    /\ attrs["min"] = PyInt(1)
    /\ Word(Self, _CC)[_noncanon_d["min"] + 1] = PyBytes(<<1>>)

\* every key of a keyword mapping is an available attribute
KeysAvailable(opts) == Keys(opts) \subseteq Range(_available)

\* C3 as claimed: a set-many that fails, also on an invalid value, applies
\* none of its pairs.
C3_AllOrNothing ==
    [][(op'.kind = "set" /\ KeysAvailable(op'.opts) /\ exc' # "ok")
           => SameInstance]_vars

\* C3 amended: when every key is available and set-many fails, it has
\* failed at its first invalid pair: the pairs before that pair are
\* applied in call order, that pair raises the exception of the call, and
\* no later pair is applied.
C3_PrefixApplied ==
    [][(op'.kind = "set" /\ KeysAvailable(op'.opts) /\ exc' # "ok")
           => \E k \in 1..Len(op'.opts) :
                 LET before == ApplyOpts(Return(Self), SubSeq(op'.opts, 1, k - 1), 1)
                     failing == Stty_setattr(before.self, op'.opts[k][1], op'.opts[k][2])
                 IN /\ before.exc = "ok"
                    /\ failing.exc = exc'
                    /\ failing.self = before.self
                    /\ Self' = before.self]_vars

\* C3 witness: set(echo=False, csize=99) has raised on csize with echo
\* switched off
C3_Witness ==
    /\ op.kind = "set"
    /\ op.opts = << <<"echo", PyBool(FALSE)>>, <<"csize", PyInt(99)>> >>
    /\ exc = "ValueError"
    /\ info = {"csize"}
    /\ attrs["echo"] = PyBool(FALSE)
    /\ BitAnd(Word(Self, _LFLAG), _bool_d["echo"][2]) = {}

\* C4: a set-many with a key that is not an available attribute raises
\* AttributeError naming every such key and changes nothing, wherever the
\* key stands in the mapping.
C4_UnknownKeyRejected ==
    [][(op'.kind = "set" /\ ~KeysAvailable(op'.opts))
           => /\ exc' = "AttributeError"
              /\ info' = Keys(op'.opts) \ Range(_available)
              /\ SameInstance]_vars

\* C4 witness: set(foo=2, echo=False, bogus=1) has raised naming foo and
\* bogus while echo is still on
C4_Witness ==
    /\ op.kind = "set"
    /\ op.opts = << <<"foo", PyInt(2)>>, <<"echo", PyBool(FALSE)>>,
                    <<"bogus", PyInt(1)>> >>
    /\ exc = "AttributeError"
    /\ info = {"foo", "bogus"}
    /\ "echo" \in DOMAIN attrs
    /\ attrs["echo"] = PyBool(TRUE)
    /\ BitAnd(Word(Self, _LFLAG), _bool_d["echo"][2]) # {}

\* C5: a snapshot of an instance that holds every available attribute
\* succeeds, and restoring the file it wrote succeeds and gives back every
\* attribute of the instance.
C5_SnapshotRestores ==
    /\ (op.kind = "save" /\ GetOk(Self))
           => (exc = "ok" /\ file.kind = "json")
    /\ (op \in {Op("load", "saved", PyNone, << >>),
                 Op("Stty", None, PyStr("saved"), << >>)}
        /\ file.kind # "absent")
           => (exc = "ok" /\ GetOk(Self)
               /\ \A i \in 1..Len(_available) :
                     PyEq(attrs[_available[i]], DocGet(file.d, _available[i])))

\* C6: fromfd succeeds, installs the blocks read from the terminal and
\* gives every available attribute the value decoded from them.
C6_FetchFromDevice ==
    (op.kind = "fromfd"
     \/ (op.kind \in {"Stty", "__init__"}
         /\ op.name # None /\ op.value = PyStr(None)))
        => /\ exc = "ok"
           /\ termios = Devices[op.name].termios
           /\ winsize = Devices[op.name].winsize
           /\ \A name \in Range(_available) :
                 name \in DOMAIN attrs /\ Consistent(name)

\* C7: assigning any value to a boolean flag succeeds, sets the mask bits
\* for a true value and clears them for a false one, and the attribute
\* reads back as exactly True or False.
C7_BooleanNormalized ==
    (op.kind = "setattr" /\ op.name \in DOMAIN _bool_d /\ HasTermios(Self))
        => LET x == _bool_d[op.name] IN
           /\ exc = "ok"
           /\ IF Truthy(op.value)
              THEN BitAnd(Word(Self, x[1]), x[2]) = x[2]
              ELSE BitAnd(Word(Self, x[1]), x[2]) = {}
           /\ attrs[op.name] = PyBool(Truthy(op.value))

\* the symbolic names of a value table
AvailNames(avail) == {avail[i][2] : i \in 1..Len(avail)}

\* the raw value of a symbolic name of a value table
AvailValue(avail, s) == avail[CHOOSE i \in 1..Len(avail) : avail[i][2] = s][1]

\* C8: assigning a member of an enumerated attribute's value table, as its
\* raw integer or as its symbolic name, succeeds, replaces the mask bits by
\* the member's raw value and reads back as the symbolic name.
C8_EnumeratedAccepted ==
    (op.kind = "setattr" /\ op.name \in DOMAIN _num_d /\ HasTermios(Self))
        => LET x == _num_d[op.name]
               byInt == op.value.t = "int" /\ op.value.n \in AvailKeys(x[3])
               byName == op.value.t = "str" /\ op.value.s \in AvailNames(x[3])
               raw == IF byInt THEN op.value.n ELSE AvailValue(x[3], op.value.s)
           IN (byInt \/ byName)
                 => /\ exc = "ok"
                    /\ BitAnd(Word(Self, x[1]), Bits(x[2])) = Bits(raw)
                    /\ attrs[op.name] = PyStr(AvailName(x[3], raw))

\* C9: assigning a value that is no member of an enumerated attribute's
\* value table, an unknown name or an integer outside the table, raises
\* ValueError and changes nothing.
C9_EnumeratedRejected ==
    [][(op'.kind = "setattr" /\ op'.name \in DOMAIN _num_d
        /\ ~(op'.value.t = "int" /\ op'.value.n \in AvailKeys(_num_d[op'.name][3]))
        /\ ~(op'.value.t = "str" /\ op'.value.s \in AvailNames(_num_d[op'.name][3])))
           => (exc' = "ValueError" /\ SameInstance)]_vars

\* the byte a control character value stands for: caret notation, undef
\* (the byte 0 disables a control character), a one-character string or a
\* single byte; -1 for any other shape
CcByte(value) ==
    CASE value = PyStr("^C") -> 3
      [] value = PyStr("^c") -> 3
      [] value = PyStr("^?") -> 127
      [] value = PyStr("undef") -> 0
      [] value = PyStr("^-") -> 0
      [] value = PyStr("a") -> 97
      [] value.t = "bytes" /\ Len(value.b) = 1 -> value.b[1]
      [] OTHER -> -1

\* C10: assigning a control character in caret notation, as undef, as a
\* one-character string or as a single byte succeeds and writes the byte
\* it stands for; any other shape raises ValueError.
C10_ControlCharDecoded ==
    (op.kind = "setattr" /\ op.name \in DOMAIN _cc_d /\ HasTermios(Self))
        => IF CcByte(op.value) >= 0
           THEN /\ exc = "ok"
                /\ Word(Self, _CC)[_cc_d[op.name] + 1] = PyBytes(<<CcByte(op.value)>>)
           ELSE exc = "ValueError"

\* the upper-case form of a character
Upper(x) == IF x >= 97 /\ x <= 122 THEN x - 32 ELSE x

\* C11: encoding the decoded byte returns the canonical string:
\* cc_bytes_to_str(cc_str_to_bytes(s)) returns, and its value is s for a
\* printable character s, "^" followed by the upper-case letter for a
\* caret notation, and "undef" for "^-" and "undef"
C11_CcRoundTrip ==
    conv.kind = "round trip"
        => /\ (Len(conv.arg) = 1 /\ conv.arg[1] \in Printable)
                  => conv.exc = "ok" /\ conv.out = conv.arg
           /\ (Len(conv.arg) = 2 /\ conv.arg[1] = Caret
               /\ conv.arg[2] \in CircumflexChars)
                  => /\ conv.exc = "ok"
                     /\ conv.out = <<Caret, Upper(conv.arg[2])>>
           /\ conv.arg \in {<<Caret, 45>>, Undef}
                  => conv.exc = "ok" /\ conv.out = Undef

\* C13: loading a document without the key of the raw attribute block
\* raises the error that names that key; loading one that holds both raw
\* blocks and lacks an available attribute raises the error that names
\* the lacking attributes; and a document that holds both raw blocks and
\* every available attribute has its blocks installed and its remaining
\* keys applied through set.
C13_RestoreChecks ==
    [][(op'.kind = "load" /\ op'.name \in DOMAIN Docs
        /\ Docs[op'.name].kind = "json")
           => LET d == Docs[op'.name].d
                  rest == DocPop(DocPop(d, "_termios"), "_winsize")
                  lacking == Range(_available) \ Keys(rest)
              IN IF "_termios" \notin Keys(d)
                 THEN exc' = "ValueError" /\ info' = {"_termios"}
                 ELSE IF "_winsize" \notin Keys(d) THEN exc' # "ok"
                 ELSE IF lacking # {}
                 THEN exc' = "ValueError" /\ info' = lacking
                 ELSE LET r == Stty_set(
                                  [Self EXCEPT !.termios = DocGet(d, "_termios"),
                                               !.winsize = DocGet(d, "_winsize")],
                                  rest)
                      IN Self' = r.self /\ exc' = r.exc /\ info' = r.info]_vars

\* C13 witness: the document without echo has been refused for lacking
\* echo, with its raw blocks installed
C13_Witness ==
    /\ op = Op("load", "noecho", PyNone, << >>)
    /\ exc = "ValueError"
    /\ info = {"echo"}
    /\ termios = DocGet(Docs["noecho"].d, "_termios")

\* the slot of the control character list a count is kept in
CountSlot(self, name) == Word(self, _CC)[_noncanon_d[name] + 1]

\* C12: on an instance that holds a raw block, assigning an integer of
\* 0..255 to min or time succeeds, writes it as one byte to the
\* attribute's slot and reads back as that integer; a negative integer
\* and an integer above 255 raise ValueError, a value that is no integer
\* raises TypeError, and a failed assignment leaves the slot and every
\* attribute as they were.
C12_CountRange ==
    [][(op'.kind = "setattr" /\ op'.name \in DOMAIN _noncanon_d
        /\ HasTermios(Self))
           => IF ~IsInt(op'.value) THEN exc' = "TypeError" /\ SameInstance
              ELSE IF IntOf(op'.value) < 0 \/ IntOf(op'.value) > 255
                   THEN exc' = "ValueError" /\ SameInstance
              ELSE /\ exc' = "ok"
                   /\ CountSlot(Self', op'.name) = PyBytes(<<IntOf(op'.value)>>)
                   /\ PyEq(attrs'[op'.name], op'.value)]_vars

\* C12 witness: time = 300 has raised ValueError after time = 255 had
\* been stored as the byte 255
C12_Witness ==
    /\ op = Op("setattr", "time", PyInt(300), << >>)
    /\ exc = "ValueError"
    /\ "time" \in DOMAIN attrs
    /\ attrs["time"] = PyInt(255)
    /\ CountSlot(Self, "time") = PyBytes(<<255>>)

\* the flag `name` reads False and its mask bits are clear
FlagOff(name) ==
    /\ name \in DOMAIN attrs
    /\ attrs[name] = PyBool(FALSE)
    /\ BitAnd(Word(Self, _bool_d[name][1]), _bool_d[name][2]) = {}

\* C14: on an instance that holds a raw block raw() succeeds; afterwards
\* every input flag and every local flag, opost and parenb read False with
\* their bits clear, csize reads "cs8" with the bits of CS8, min reads 1
\* and time 0 with those bytes in their slots, and another raw() returns
\* the same instance.
C14_RawMode ==
    (op.kind = "raw" /\ HasTermios(Self))
        => /\ exc = "ok"
           /\ \A i \in 1..Len(IFBOOL_A) : FlagOff(IFBOOL_A[i])
           /\ \A i \in 1..Len(LFBOOL_A) : FlagOff(LFBOOL_A[i])
           /\ FlagOff("opost")
           /\ FlagOff("parenb")
           /\ attrs["csize"] = PyStr("cs8")
           /\ BitAnd(Word(Self, _CFLAG), Bits(_num_d["csize"][2])) = Bits(cs8)
           /\ attrs["min"] = PyInt(1)
           /\ CountSlot(Self, "min") = PyBytes(<<1>>)
           /\ attrs["time"] = PyInt(0)
           /\ CountSlot(Self, "time") = PyBytes(<<0>>)
           /\ Stty_raw(Self) = Return(Self)

\* C14 witness: raw() has returned on the serial line, whose count slots
\* held integers as the line gave them
C14_Witness ==
    /\ op.kind = "raw"
    /\ exc = "ok"
    /\ Word(Self, _ISPEED) = Word(Devices["serial"], _ISPEED)
    /\ attrs["echo"] = PyBool(FALSE)
    /\ attrs["min"] = PyInt(1)

\* the raw field of an attribute: its mask bits, its speed slot, its slot
\* of the control character list or its slot of the window block
RawField(self, name) ==
    IF name \in DOMAIN _bool_d
    THEN BitAnd(Word(self, _bool_d[name][1]), _bool_d[name][2])
    ELSE IF name \in DOMAIN _num_d
    THEN BitAnd(Word(self, _num_d[name][1]), Bits(_num_d[name][2]))
    ELSE IF name \in DOMAIN _speed_d THEN Word(self, _speed_d[name])
    ELSE IF name \in DOMAIN _cc_d THEN Word(self, _CC)[_cc_d[name] + 1]
    ELSE IF name \in DOMAIN _noncanon_d THEN CountSlot(self, name)
    ELSE IF self.winsize.t \in {"tuple", "list"}
    THEN self.winsize.b[_winsz_d[name] + 1]
    ELSE -1

\* getattr(self, name), Absent when the instance has no such attribute
Cached(self, name) ==
    IF name \in DOMAIN self.attrs THEN self.attrs[name] ELSE Absent

\* C15: a single assignment that succeeds leaves the raw field and the
\* attribute of every other available name as they were.
C15_SetFrame ==
    [][(op'.kind = "setattr" /\ exc' = "ok")
           => \A b \in Range(_available) \ {op'.name} :
                 /\ RawField(Self', b) = RawField(Self, b)
                 /\ Cached(Self', b) = Cached(Self, b)]_vars

\* C15 witness: on the serial line min = 0 has been written to its slot
\* while the slots of time and eof beside it keep what the line gave
C15_Witness ==
    /\ op = Op("setattr", "min", PyInt(0), << >>)
    /\ exc = "ok"
    /\ CountSlot(Self, "min") = PyBytes(<<0>>)
    /\ CountSlot(Self, "time") = CountSlot(Devices["serial"], "time")
    /\ RawField(Self, "eof") = RawField(Devices["serial"], "eof")

====
